---- MODULE Spec2Model ----
(***************************************************************************)
(* make_defect.py: one run of main() -- parse_poscar, substitute,          *)
(* write_poscar -- over a POSCAR file.                                     *)
(*                                                                         *)
(* A file is a sequence of lines, a line the sequence of its               *)
(* whitespace-separated tokens (what str.split() sees).  A token is a word *)
(* or a number.  Coordinates are integers in units of 0.5, so <<1,1,1>> is *)
(* [0.5, 0.5, 0.5]; every value in the bounds is an exact binary float     *)
(* whose .16f rendering parses back to itself.  distance() is kept         *)
(* squared: math.sqrt is strictly increasing on these values, so the       *)
(* order min() sees is the same.                                           *)
(***************************************************************************)
EXTENDS Integers, Sequences, FiniteSets, TLC

VARIABLES infile, pc, parsed_data, call, result, exc, outfile

vars == <<infile, pc, parsed_data, call, result, exc, outfile>>

(* ---------------------------- bounds ----------------------------------- *)
MaxTypes == 2
MaxAtoms == 3

FileSymbols == {"Si", "O", "Va"}
Points == {<<0, 0, 0>>, <<2, 2, 2>>}
Layouts == {"Direct", "selective", "nomarker", "truncated", "badtoken"}
Substitutions == {"Si", "O", "Va", "Fe"}
Sites == {"Si", "Fe"}
NoTarget == <<>>
Targets == {NoTarget, <<2, 2, 1>>}

(* ---------------------------- tokens ----------------------------------- *)
W(s) == [t |-> "w", s |-> s, v |-> 0]
N(v) == [t |-> "n", s |-> "", v |-> v]

NoExc == [cls |-> "", fn |-> "", line |-> 0]
Raise(cls, fn, line) == [cls |-> cls, fn |-> fn, line |-> line]

(* ---------------------------- list helpers ----------------------------- *)
RECURSIVE sum(_)
sum(s) == IF s = <<>> THEN 0 ELSE Head(s) + sum(Tail(s))

InSeq(x, s) == \E i \in 1..Len(s) : s[i] = x

\* list.index(x): the first position holding x (the caller has checked x in s)
index(s, x) == CHOOSE i \in 1..Len(s) : s[i] = x /\ \A j \in 1..(i - 1) : s[j] # x

RemoveAt(s, i) == SubSeq(s, 1, i - 1) \o SubSeq(s, i + 1, Len(s))

\* list.remove(x): drops the first element equal to x
list_remove(s, x) == RemoveAt(s, index(s, x))

MinOf(a, b) == IF a < b THEN a ELSE b

(* ---------------------------- distance, min ---------------------------- *)
sq(a) == a * a

RECURSIVE sumsq(_, _, _)
sumsq(p1, p2, i) ==
    IF i > MinOf(Len(p1), Len(p2)) THEN 0
    ELSE sq(p1[i] - p2[i]) + sumsq(p1, p2, i + 1)

distance(p1, p2) == sumsq(p1, p2, 1)

key_less_eq(a, b) == a <= b

\* min() replaces its best only by a candidate whose key is strictly smaller
key_less(a, b) == a < b

RECURSIVE min_from(_, _, _, _)
min_from(positions, target, i, best) ==
    IF i > Len(positions) THEN best
    ELSE min_from(positions, target, i + 1,
                  IF key_less(distance(positions[i], target), distance(best, target))
                  THEN positions[i] ELSE best)

find_closest_position(positions, target) ==
    min_from(positions, target, 2, positions[1])

(* ---------------------------- parse_poscar ----------------------------- *)
lower(s) ==
    CASE s = "Direct" -> "direct"
      [] s = "Cartesian" -> "cartesian"
      [] s = "Selective" -> "selective"
      [] OTHER -> s

\* lines[i].strip().lower() in ['direct', 'cartesian']
IsMarker(line) ==
    /\ Len(line) = 1
    /\ line[1].t = "w"
    /\ lower(line[1].s) \in {"direct", "cartesian"}

\* the while loop of lines 27-28; 0 when it runs off the end (IndexError)
RECURSIVE scan_marker(_, _)
scan_marker(lines, i) ==
    IF i > Len(lines) THEN 0
    ELSE IF IsMarker(lines[i]) THEN i
    ELSE scan_marker(lines, i + 1)

first3(line) == SubSeq(line, 1, MinOf(3, Len(line)))

floats(line) == [j \in 1..Len(first3(line)) |-> line[j].v]

EmptyPositions == [x \in {} |-> <<>>]

\* A slice bound as Python reads it: negative counts from the end, then clamped
slice_bound(k, n) == IF k < 0 THEN (IF k + n < 0 THEN 0 ELSE k + n) ELSE MinOf(k, n)

\* s[start:stop]
py_slice(s, start, stop) ==
    SubSeq(s, slice_bound(start, Len(s)) + 1, slice_bound(stop, Len(s)))

\* the zip loop of lines 35-39: a later entry for a symbol replaces the earlier
RECURSIVE slice_positions(_, _, _, _, _, _)
slice_positions(atom_types, atom_counts, flat, i, idx, acc) ==
    IF i > MinOf(Len(atom_types), Len(atom_counts)) THEN acc
    ELSE slice_positions(atom_types, atom_counts, flat, i + 1, idx + atom_counts[i],
            [x \in (DOMAIN acc) \cup {atom_types[i]} |->
                IF x = atom_types[i]
                THEN py_slice(flat, idx, idx + atom_counts[i])
                ELSE acc[x]])

EmptyData ==
    [lines |-> <<>>, atom_types |-> <<>>, atom_counts |-> <<>>,
     coord_type |-> "", element_positions |-> EmptyPositions]

\* line 33: the first total_atoms lines after the marker, three floats each
atomic_positions(lines, marker, total_atoms) ==
    [i \in 1..total_atoms |-> floats(lines[marker + i])]

ParseFail(cls, line) == [exc |-> Raise(cls, "parse_poscar", line), data |-> EmptyData]

parse_poscar(lines) ==
    IF Len(lines) < 7 THEN ParseFail("IndexError", 17)
    ELSE IF \E j \in 1..Len(lines[7]) : lines[7][j].t = "w" THEN ParseFail("ValueError", 18)
    ELSE
    LET atom_types == [j \in 1..Len(lines[6]) |-> lines[6][j].s]
        atom_counts == [j \in 1..Len(lines[7]) |-> lines[7][j].v]
        total_atoms == sum(atom_counts)
        marker == scan_marker(lines, 8)
    IN  IF marker = 0 THEN ParseFail("IndexError", 27)
        ELSE
        LET missing(i) == marker + i > Len(lines)
            bad(i) == ~missing(i) /\ \E j \in 1..Len(first3(lines[marker + i])) :
                                        lines[marker + i][j].t = "w"
            failing == {i \in 1..total_atoms : missing(i) \/ bad(i)}
        IN  IF failing # {}
            THEN LET i0 == CHOOSE i \in failing : \A k \in failing : i <= k
                 IN  ParseFail(IF missing(i0) THEN "IndexError" ELSE "ValueError", 33)
            ELSE
                [exc |-> NoExc,
                 data |-> [lines |-> lines,
                           atom_types |-> atom_types,
                           atom_counts |-> atom_counts,
                           coord_type |-> lines[marker][1].s,
                           element_positions |->
                               slice_positions(atom_types, atom_counts,
                                   atomic_positions(lines, marker, total_atoms),
                                   1, 0, EmptyPositions)]]

(* ---------------------------- substitute ------------------------------- *)
DefaultTarget == <<1, 1, 1>>

site_missing_never(site, atom_types) == FALSE

\* line 56: site not in atom_types
site_missing(site, atom_types) == ~InSeq(site, atom_types)

prepend_type(atom_types, substitution) == <<substitution>> \o atom_types

\* line 85: atom_types.append(substitution)
append_type(atom_types, substitution) == Append(atom_types, substitution)

\* lines 94-96: positions.get(atom, []) for each entry of atom_types, in order
RECURSIVE all_positions(_, _, _)
all_positions(atom_types, positions, i) ==
    IF i > Len(atom_types) THEN <<>>
    ELSE (IF atom_types[i] \in DOMAIN positions THEN positions[atom_types[i]] ELSE <<>>)
         \o all_positions(atom_types, positions, i + 1)

\* "  {x:.16f}  {y:.16f}  {z:.16f}\n"
coord_line(pos) == <<N(pos[1]), N(pos[2]), N(pos[3])>>

\* lines 98-105: the lines handed to write_poscar
serialize(lines, atom_types, atom_counts, coord_type, positions, substitution, site, sel) ==
    LET flat == all_positions(atom_types, positions, 1)
        header == SubSeq(lines, 1, MinOf(5, Len(lines)))
        new_lines ==
            header
            \o << [j \in 1..Len(atom_types) |-> W(atom_types[j])] >>
            \o << [j \in 1..Len(atom_counts) |-> N(atom_counts[j])] >>
            \o << <<W(coord_type)>> >>
            \o [i \in 1..Len(flat) |-> coord_line(flat[i])]
    IN  [new_lines EXCEPT ![1] = <<W(substitution), W(site), W("defect")>> \o coord_line(sel)]

NoLines == <<>>
NoPosition == <<>>
NoFilename == <<>>

\* The locals of substitute when it returns or raises.  positions is the dict
\* parsed_data["element_positions"] itself, changed in place.
Locals(e, atom_types, atom_counts, positions, sel, new_lines, filename) ==
    [exc |-> e, atom_types |-> atom_types, atom_counts |-> atom_counts,
     positions |-> positions, substituted_position |-> sel,
     new_lines |-> new_lines, filename |-> filename]

substitute(parsed, substitution, site, target_position) ==
    LET lines == parsed.lines
        types0 == parsed.atom_types
        counts0 == parsed.atom_counts
        coord_type == parsed.coord_type
        positions0 == parsed.element_positions
        raised(e, positions) ==
            Locals(e, types0, counts0, positions, NoPosition, NoLines, NoFilename)
    IN
    IF site_missing(site, types0)
    THEN raised(Raise("ValueError", "substitute", 57), positions0)
    ELSE IF site \notin DOMAIN positions0
    THEN raised(Raise("KeyError", "substitute", 59), positions0)
    ELSE
    LET atom_positions == positions0[site]
        target == IF target_position = NoTarget THEN DefaultTarget ELSE target_position
    IN
    IF atom_positions = <<>>
    THEN raised(Raise("ValueError", "find_closest_position", 8), positions0)
    ELSE
    LET sel == find_closest_position(atom_positions, target)
        positions1 == [positions0 EXCEPT ![site] = list_remove(@, sel)]
        site_index == index(types0, site)
        counts1 == [counts0 EXCEPT ![site_index] = @ - 1]
        known == InSeq(substitution, types0)
        types2 == IF known \/ substitution = "Va" THEN types0
                  ELSE append_type(types0, substitution)
        counts2 == IF known THEN [counts1 EXCEPT ![index(types0, substitution)] = @ + 1]
                   ELSE IF substitution = "Va" THEN counts1
                   ELSE Append(counts1, 1)
        positions2 == IF known \/ substitution = "Va" THEN positions1
                      ELSE [x \in (DOMAIN positions1) \cup {substitution} |->
                               IF x = substitution THEN <<>> ELSE positions1[x]]
    IN
    IF substitution # "Va" /\ substitution \notin DOMAIN positions2
    THEN Locals(Raise("KeyError", "substitute", 90), types2, counts2, positions2,
                sel, NoLines, NoFilename)
    ELSE
    LET positions3 == IF substitution = "Va" THEN positions2
                      ELSE [positions2 EXCEPT ![substitution] = Append(@, sel)]
    IN  Locals(NoExc, types2, counts2, positions3, sel,
               serialize(lines, types2, counts2, coord_type, positions3,
                         substitution, site, sel),
               <<substitution, site>>)

\* What main's parsed_data holds after the call: atom_types and atom_counts were
\* copied (lines 51-52), lines is only sliced, element_positions is shared.
caller_view_aliased(parsed, local) ==
    [parsed EXCEPT !.atom_types = local.atom_types,
                   !.atom_counts = local.atom_counts,
                   !.element_positions = local.positions]

caller_view(parsed, local) ==
    [parsed EXCEPT !.element_positions = local.positions]

(* ---------------------------- input files ------------------------------ *)
Header ==
    << <<W("comment")>>, <<N(1)>>,
       <<N(4), N(0), N(0)>>, <<N(0), N(4), N(0)>>, <<N(0), N(0), N(4)>> >>

Flags == <<W("T"), W("T"), W("F")>>

CountLists(n) == {c \in [1..n -> 0..MaxAtoms] : sum(c) <= MaxAtoms}

\* A POSCAR with the given species, counts and coordinates, laid out as:
\*   Direct     the marker "Direct" right after the counts line
\*   selective  a "Selective dynamics" line, the marker "cartesian", and
\*              T/F flags after each coordinate
\*   nomarker   no Direct/Cartesian line at all
\*   truncated  the last coordinate line is missing
\*   badtoken   the last coordinate line has a non-numeric second token
PoscarFile(atom_types, atom_counts, coords, layout) ==
    LET n == Len(coords)
        plain == [i \in 1..n |-> coord_line(coords[i])]
        body == CASE layout = "selective" -> [i \in 1..n |-> plain[i] \o Flags]
                  [] layout = "truncated" -> SubSeq(plain, 1, n - 1)
                  [] layout = "badtoken" ->
                        [i \in 1..n |-> IF i = n THEN [plain[i] EXCEPT ![2] = W("x")]
                                        ELSE plain[i]]
                  [] OTHER -> plain
        marker == CASE layout = "selective" ->
                        << <<W("Selective"), W("dynamics")>>, <<W("cartesian")>> >>
                    [] layout = "nomarker" -> <<>>
                    [] OTHER -> << <<W("Direct")>> >>
    IN  Header
        \o << [j \in 1..Len(atom_types) |-> W(atom_types[j])] >>
        \o << [j \in 1..Len(atom_counts) |-> N(atom_counts[j])] >>
        \o marker \o body

\* infile is some POSCAR within the bounds
IsInputFile(f) ==
    \E n \in 1..MaxTypes :
      \E ty \in [1..n -> FileSymbols], c \in CountLists(n), layout \in Layouts :
        \E xyz \in [1..sum(c) -> Points] :
          f = PoscarFile(ty, c, xyz, layout)

(* ---------------------------- main ------------------------------------- *)
NoCall == [substitution |-> "", site |-> "", target |-> NoTarget]
NoResult == Locals(NoExc, <<>>, <<>>, EmptyPositions, NoPosition, NoLines, NoFilename)
NoFile == [written |-> FALSE, name |-> NoFilename, lines |-> NoLines]

proceed_always(e, next) == next

\* main has no try/except: an exception ends the run where it is raised
proceed(e, next) == IF e = NoExc THEN next ELSE "failed"

Init ==
    /\ IsInputFile(infile)
    /\ pc = "start"
    /\ parsed_data = EmptyData
    /\ call = NoCall
    /\ result = NoResult
    /\ exc = NoExc
    /\ outfile = NoFile

\* line 133
Parse ==
    /\ pc = "start"
    /\ LET r == parse_poscar(infile)
       IN  /\ parsed_data' = r.data
           /\ exc' = r.exc
           /\ pc' = proceed(r.exc, "parsed")
    /\ UNCHANGED <<infile, call, result, outfile>>

\* lines 134-135
Substitute ==
    /\ pc = "parsed"
    /\ \E substitution \in Substitutions, site \in Sites, target \in Targets :
         LET r == substitute(parsed_data, substitution, site, target)
         IN  /\ call' = [substitution |-> substitution, site |-> site, target |-> target]
             /\ result' = r
             /\ parsed_data' = caller_view(parsed_data, r)
             /\ exc' = IF exc = NoExc THEN r.exc ELSE exc
             /\ pc' = proceed(r.exc, "substituted")
    /\ UNCHANGED <<infile, outfile>>

\* lines 136-137, write_poscar
Write ==
    /\ pc = "substituted"
    /\ outfile' = [written |-> TRUE, name |-> result.filename, lines |-> result.new_lines]
    /\ pc' = "done"
    /\ UNCHANGED <<infile, parsed_data, call, result, exc>>

Next == Parse \/ Substitute \/ Write

Spec == Init /\ [][Next]_vars

(* ======================== properties =================================== *)
\* The structure parse_poscar built from infile, before substitute touched it
Pre == parse_poscar(infile).data

Called == call # NoCall
Succeeded == Called /\ result.exc = NoExc

\* The flat coordinate block parse_poscar consumed from infile
InCoords == atomic_positions(infile, scan_marker(infile, 8), sum(Pre.atom_counts))

\* The species, counts and coordinate lines substitute emitted
OutTypes == [j \in 1..Len(result.new_lines[6]) |-> result.new_lines[6][j].s]
OutCounts == [j \in 1..Len(result.new_lines[7]) |-> result.new_lines[7][j].v]
OutCoords == [i \in 1..(Len(result.new_lines) - 8) |-> floats(result.new_lines[8 + i])]

Held == parsed_data.element_positions
Occurrences(s, x) == Cardinality({i \in 1..Len(s) : s[i] = x})
One(b) == IF b THEN 1 ELSE 0

PreConsistent ==
    \A i \in 1..Len(Pre.atom_types) :
        Pre.atom_counts[index(Pre.atom_types, Pre.atom_types[i])]
            = Len(Pre.element_positions[Pre.atom_types[i]])

\* C1 (as claimed): after a successful substitute on a structure whose counts
\* equal the lengths of its position lists, every element of the output
\* elementOrder has an output count equal to the number of positions held (and
\* emitted) for it, whatever substitutionSpecies is, 'Va' included.
C1_CountsMatchPositions ==
    (Succeeded /\ PreConsistent) =>
        \A i \in 1..Len(OutTypes) :
            OutCounts[index(OutTypes, OutTypes[i])] = Len(Held[OutTypes[i]])

\* C2 (as claimed): the output counts sum to the input counts minus 1, plus 0
\* when substitutionSpecies is 'Va' and plus 1 otherwise.
C2_CountSum ==
    Succeeded =>
        sum(OutCounts) = sum(Pre.atom_counts) - 1 + One(call.substitution # "Va")

\* C3 (as claimed): the coordinates emitted are, as a multiset, the input
\* coordinates with the selected one removed and, unless 'Va', the same value
\* added under substitutionSpecies; nothing else is added, dropped, duplicated
\* or moved to another element.
C3_PositionConservation ==
    Succeeded =>
        LET sel == result.substituted_position
            sub == call.substitution
        IN  /\ \A p \in Points :
                 Occurrences(OutCoords, p)
                   = Occurrences(InCoords, p) - One(p = sel) + One(p = sel /\ sub # "Va")
            /\ sub # "Va" => Held[sub][Len(Held[sub])] = sel
            /\ \A e \in DOMAIN Pre.element_positions :
                 e \notin {call.site, sub} => Held[e] = Pre.element_positions[e]

\* The candidates of the call, its target, and the first candidate at minimal distance
Candidates == Pre.element_positions[call.site]
TargetUsed == IF call.target = NoTarget THEN DefaultTarget ELSE call.target
FirstNearestIn(c, t) ==
    CHOOSE i \in 1..Len(c) :
        /\ \A j \in 1..Len(c) : distance(c[i], t) <= distance(c[j], t)
        /\ \A j \in 1..(i - 1) : distance(c[j], t) > distance(c[i], t)

\* C4: find_closest_position returns a candidate at minimal distance from the
\* target, the first such in the list on ties, and the atom substitute removes
\* from the site element's list is that occurrence.
C4_NearestFirst ==
    Succeeded =>
        LET c == Candidates
            first == FirstNearestIn(c, TargetUsed)
        IN  /\ result.substituted_position = c[first]
            /\ Held[call.site]
                 = RemoveAt(c, first)
                   \o (IF call.substitution = call.site
                       THEN <<result.substituted_position>> ELSE <<>>)

\* C4 witness: two different candidates tie and the earlier one was taken
C4_TieTaken ==
    /\ Succeeded
    /\ Len(Candidates) >= 2
    /\ Candidates[1] # Candidates[2]
    /\ distance(Candidates[1], TargetUsed) = distance(Candidates[2], TargetUsed)
    /\ result.substituted_position = Candidates[1]

\* C5: the output file is written only after parse_poscar and substitute have
\* both returned without an exception; a failing run never writes it.
C5_NoOutputOnFailure ==
    /\ [][outfile' # outfile =>
            pc = "substituted" /\ exc = NoExc /\ Called /\ result.exc = NoExc]_vars
    /\ [](pc = "failed" => ~outfile.written)

\* C5 witness: substitute raised after a successful parse and nothing was written
C5_FailedRun == pc = "failed" /\ Called /\ exc # NoExc /\ ~outfile.written

\* C6: a siteElement absent from elementOrder fails with the site-not-found
\* error of line 57 before any count or position changed, and nothing is emitted.
C6_UnknownSite ==
    LET pre == Pre
    IN  (Called /\ ~InSeq(call.site, pre.atom_types)) =>
        /\ pc = "failed"
        /\ exc = Raise("ValueError", "substitute", 57)
        /\ parsed_data = pre
        /\ result.new_lines = NoLines
        /\ ~outfile.written

\* C6 witness: substitute was called with a site the parsed file does not list
C6_UnknownSiteCalled ==
    /\ Called
    /\ Pre.atom_types # <<>>
    /\ ~InSeq(call.site, Pre.atom_types)
    /\ pc = "failed"

\* C7 (as claimed): a listed siteElement with no atoms fails with a named
\* EmptySiteError raised by an explicit check in substitute, not by the minimum
\* search, and the structure is left unchanged.
C7_EmptySite ==
    (Called /\ InSeq(call.site, Pre.atom_types) /\ Candidates = <<>>) =>
        /\ pc = "failed"
        /\ exc.cls = "EmptySiteError"
        /\ exc.fn = "substitute"
        /\ parsed_data = Pre

\* C8 (as claimed): parse_poscar on the emitted lines succeeds and gives back
\* the elementOrder, elementCounts, coordType and per-element positions that
\* substitute held when it serialized.
C8_RoundTrip ==
    Succeeded =>
        LET again == parse_poscar(result.new_lines)
        IN  /\ again.exc = NoExc
            /\ again.data.atom_types = result.atom_types
            /\ again.data.atom_counts = result.atom_counts
            /\ again.data.coord_type = parsed_data.coord_type
            /\ again.data.element_positions = result.positions

SiteIndex == index(Pre.atom_types, call.site)

\* The site element is listed with count 1 and holds one position
LastAtomIn(pre) ==
    /\ pre.atom_counts[index(pre.atom_types, call.site)] = 1
    /\ Len(pre.element_positions[call.site]) = 1
LastAtom == LastAtomIn(Pre)

\* The listed species keep their places; at most substitutionSpecies is added, last
OrderKeptFrom(pre, out) ==
    /\ Len(out) >= Len(pre.atom_types)
    /\ SubSeq(out, 1, Len(pre.atom_types)) = pre.atom_types
    /\ \/ out = pre.atom_types
       \/ out = Append(pre.atom_types, call.substitution)
OrderKept == OrderKeptFrom(Pre, OutTypes)

\* C9 (as claimed): removing the last atom of siteElement leaves it in the
\* output elementOrder at its index with count 0; the order of the existing
\* elements is kept and a new species is only appended at the end.
C9_ZeroCountAsClaimed ==
    Succeeded =>
        /\ OrderKept
        /\ LastAtom => OutTypes[SiteIndex] = call.site /\ OutCounts[SiteIndex] = 0

\* C9 (amended): as above, with count 0 when substitutionSpecies differs from
\* siteElement and count 1 when it is siteElement itself (the atom is re-added).
C9_ZeroCountRetained ==
    Succeeded =>
        LET pre == Pre
            k == index(pre.atom_types, call.site)
        IN  /\ OrderKeptFrom(pre, OutTypes)
            /\ LastAtomIn(pre) =>
                 /\ OutTypes[k] = call.site
                 /\ OutCounts[k] = One(call.substitution = call.site)

\* C9 witness: the only atom of the site was replaced by a new species
C9_LastAtomReplaced ==
    /\ Succeeded
    /\ LastAtom
    /\ ~InSeq(call.substitution, Pre.atom_types)
    /\ call.substitution # "Va"
    /\ OutCounts[SiteIndex] = 0
    /\ OutTypes[Len(OutTypes)] = call.substitution

\* C10: every call to substitute leaves lines, atom_types, atom_counts and
\* coord_type of parsed_data as they were; of element_positions it changes at
\* most the lists of siteElement and substitutionSpecies.
C10_Frame ==
    [][pc = "parsed" =>
        /\ parsed_data'.lines = parsed_data.lines
        /\ parsed_data'.atom_types = parsed_data.atom_types
        /\ parsed_data'.atom_counts = parsed_data.atom_counts
        /\ parsed_data'.coord_type = parsed_data.coord_type
        /\ DOMAIN parsed_data'.element_positions
             \subseteq (DOMAIN parsed_data.element_positions) \cup {call'.substitution}
        /\ \A e \in DOMAIN parsed_data.element_positions :
             e \notin {call'.site, call'.substitution} =>
                parsed_data'.element_positions[e] = parsed_data.element_positions[e]]_vars

\* C10 witness: a call whose local counts and species differ from parsed_data's
\* and which changed a position list
C10_LocalsDiffer ==
    /\ Succeeded
    /\ result.atom_counts # parsed_data.atom_counts
    /\ result.atom_types # parsed_data.atom_types
    /\ parsed_data.element_positions # Pre.element_positions

(* ------------------------ where C1, C2, C3 and C8 do hold -------------- *)
\* No symbol is listed twice in the parsed species line
NoRepeat ==
    \A i, j \in 1..Len(Pre.atom_types) :
        Pre.atom_types[i] = Pre.atom_types[j] => i = j

\* The call asks for a vacancy while the file lists a species named 'Va'
VaListed == call.substitution = "Va" /\ InSeq("Va", Pre.atom_types)

\* Supporting fact: the count/position statement of C1 holds on every call
\* except a vacancy in a file that lists 'Va'
CountsMatchUnlessVaListed == ~VaListed => C1_CountsMatchPositions

\* Supporting fact: the count-sum statement of C2 holds on every call except a
\* vacancy in a file that lists 'Va'
CountSumUnlessVaListed == ~VaListed => C2_CountSum

\* Supporting fact: the conservation statement of C3 holds when no symbol is
\* listed twice
ConservationUnlessRepeat == NoRepeat => C3_PositionConservation

\* Supporting fact: the round trip of C8 holds when neither of the two happens
RoundTripUnlessRepeatOrVaListed == (NoRepeat /\ ~VaListed) => C8_RoundTrip

====
